---- MODULE Spec2Model ----
(***************************************************************************)
(* The member verification lifecycle of cogs/verification.py: the two      *)
(* in-memory dictionaries of the Verification cog, its role handles, the   *)
(* event handlers (join, verify_user, message, role update) and the two    *)
(* periodic sweeps.  Time is in seconds.  The outcome of each outbound     *)
(* call is an input of the handler.                                        *)
(*                                                                         *)
(* Spec        every handler runs to its end before the next one starts.   *)
(* SpecAwait   the two sweeps are suspended while the outbound calls of a  *)
(*             member are awaited, and the other handlers run meanwhile.   *)
(* SpecStartup the two runs of initialize_roles (the constructor's task    *)
(*             and on_ready) are suspended in create_role and in sleep.    *)
(* SpecCancel  the sweeps are suspended in each outbound call, and         *)
(*             cog_unload cancels them there.                              *)
(* SpecLive    joins, daily sweeps and the clock, with the sweeps firing   *)
(*             again and again.                                            *)
(* SpecRejoin  joins, leaves and daily sweeps, with the time of each       *)
(*             user's last join recorded.                                  *)
(*                                                                         *)
(* The currency commands of cogs/currency_system.py (SpecCurrency) and the *)
(* trade sessions of cogs/trading.py (SpecTrading) are modelled call by    *)
(* call on variables of their own.                                         *)
(***************************************************************************)
EXTENDS Integers, Sequences, FiniteSets, TLC

\* ---------------------------------------------------------------- bounds
NumUsers == 2
MaxAdvances == 3

\* ----------------------------------------------------- program constants
VERIFICATION_PERIOD_HOURS == 24
POST_ACTIVITY_PERIOD_HOURS == 24
SecondsPerHour == 3600
MaxAttempts == 3

Users == 1..NumUsers
MUST_VERIFY == "MUST VERIFY"
MEMBER == "Member"
ADMIN == "Admin"
MODERATOR == "Moderator"

Window == VERIFICATION_PERIOD_HOURS * SecondsPerHour

\* The wall clock is read at a fixed series of instants: 0, Window - 1,
\* 2 * Window - 1, 3 * Window, ... so that an entry is seen at the ages
\* Window - 1, Window and Window + 1 seconds, and two windows can elapse one
\* after the other.  DelayAt(i) is the time between reading i - 1 and
\* reading i.
DelayAt(i) ==
    CASE i % 3 = 1 -> Window - 1
      [] i % 3 = 2 -> Window
      [] OTHER     -> Window + 1

VARIABLES
    now,                      \* datetime.datetime.now(EST), in seconds
    advances,                 \* how often the clock has moved
    guild_members,            \* the users guild.get_member() finds
    roles,                    \* member.roles of each user (tracked roles only)
    must_verify_role,         \* self.must_verify_role is set
    member_role,              \* self.member_role is set
    unverified_users,         \* self.unverified_users: user -> time, or None
    recently_verified_users,  \* self.recently_verified_users: user -> time, or None
    demoted_at,               \* history: when the hourly sweep last demoted the user
    cleared,                  \* history: the user proved activity since the last promotion
    guild_roles,              \* guild.roles: how many roles of each tracked name exist
    to_kick,                  \* the members a suspended daily sweep has still to kick
    to_reverify,              \* the members a suspended hourly sweep has still to demote
    init_run,                 \* where each run of initialize_roles is, and its attempt
    awaiting,                 \* the call in which the demotion of the first
                              \* member of to_reverify is suspended, "none"
                              \* when the sweep suspends between members only
    joined_at,                \* history: when the user last joined the guild,
                              \* recorded under SpecRejoin
    balance,                  \* UserCurrency.balance of each user, 0 without a row
    in_flight,                \* the currency commands that are suspended
    issued,                   \* how many currency commands have been invoked
    active_trades,            \* the keys of TradingCog.active_trades
    trade_data,               \* TradeView.trade_data["target_user"] of each
                              \* entry, None while the form is not submitted
    trade_pc,                 \* where the trade coroutines of each initiator
                              \* are, and their local target_user
    trade_ended,              \* history: the session the user opened has ended
    last                      \* the handler that ran last and how it ended:
                              \* "ok", "logged" (it logged an error before its
                              \* first outbound call and returned),
                              \* "kick_failed" or "call_failed" (an outbound
                              \* call of a sweep raised and was logged),
                              \* "rejected" (the command answered with a
                              \* rejection), "denied" (the check failed and the
                              \* tree's error handler answered), "raised" (an
                              \* exception left the handler)

vars == <<now, advances, guild_members, roles, must_verify_role, member_role,
          unverified_users, recently_verified_users, demoted_at, cleared,
          guild_roles, to_kick, to_reverify, init_run, awaiting, joined_at,
          balance, in_flight, issued,
          active_trades, trade_data, trade_pc, trade_ended, last>>

\* What is in flight while a coroutine is suspended.
suspended == <<to_kick, to_reverify, init_run, awaiting>>

\* The state of the cogs: Verification, CurrencySystem, TradingCog.
verification_cog ==
    <<now, advances, guild_members, roles, must_verify_role, member_role,
      unverified_users, recently_verified_users, demoted_at, cleared,
      guild_roles, to_kick, to_reverify, init_run, awaiting, joined_at>>

currency_cog == <<balance, in_flight, issued>>

trading_cog == <<active_trades, trade_data, trade_pc, trade_ended>>

other_cogs == <<currency_cog, trading_cog>>

None == -1

\* ------------------------------------------------------- dict operations
\* A dict over user ids is a function that is None where the key is absent.
Keys(d) == {k \in DOMAIN d : d[k] # None}

Has(d, k) == d[k] # None

\* d[k] = v
DictSet(d, k, v) == [d EXCEPT ![k] = v]

\* d.pop(k, None)
DictPop(d, k) == [d EXCEPT ![k] = None]

EmptyDict == [u \in Users |-> None]

\* What the last step left behind: the handler and how it ended.
Event(op, res) == [op |-> op, res |-> res]

\* The currency commands that can be suspended at the same time.
MaxCommands == 2

Commands == 1..MaxCommands

\* A slot of in_flight that holds no command.
NoCommand == [pc |-> "idle", name |-> "none", debtor |-> None,
              creditor |-> None, amount |-> 0, debited |-> 0, credited |-> 0]

\* No coroutine of the user's trade is suspended.
NoTrade == [at |-> "idle", target_user |-> None]

\* The two roles the cog looks up by name and creates when absent.
RoleNames == {MUST_VERIFY, MEMBER}

\* The two runs of initialize_roles at startup: the task the constructor
\* creates, and the on_ready listener.
Runs == {"task", "on_ready"}

NotStarted == [pc |-> "idle", attempt |-> 0]

\* ------------------------------------------------------------------ Init
Init ==
    /\ now = 0
    /\ advances = 0
    /\ guild_members = {}
    /\ roles = [u \in Users |-> {}]
    /\ must_verify_role = FALSE
    /\ member_role = FALSE
    /\ unverified_users = EmptyDict
    /\ recently_verified_users = EmptyDict
    /\ demoted_at = [u \in Users |-> None]
    /\ cleared = [u \in Users |-> FALSE]
    /\ guild_roles = [n \in RoleNames |-> 0]
    /\ to_kick = <<>>
    /\ to_reverify = <<>>
    /\ init_run = [r \in Runs |-> NotStarted]
    /\ awaiting = "none"
    /\ joined_at = [u \in Users |-> None]
    /\ balance = [u \in Users |-> 0]
    /\ in_flight = [c \in Commands |-> NoCommand]
    /\ issued = 0
    /\ active_trades = {}
    /\ trade_data = [u \in Users |-> None]
    /\ trade_pc = [u \in Users |-> NoTrade]
    /\ trade_ended = [u \in Users |-> FALSE]
    /\ last = Event("Init", "ok")

\* ------------------------------------------------------ role directory
\* _get_or_create_role on a guild with n roles of the name: the number of
\* roles of that name once the call has returned.
GetOrCreate(n) == IF n = 0 THEN 1 ELSE n

\* One run of initialize_roles.  outs[i] is what attempt i of
\* _fetch_or_create_roles does: "ok", or the create_role call that raises
\* (a role that exists is found and not created, so its call cannot raise).
\* h is <<must_verify_role, member_role, guild_roles, the attempt succeeded>>.
RECURSIVE RunAttempts(_, _, _)
RunAttempts(outs, i, h) ==
    IF i > MaxAttempts THEN h
    ELSE LET g1 == [h[3] EXCEPT ![MUST_VERIFY] = GetOrCreate(@)]
             g2 == [g1 EXCEPT ![MEMBER] = GetOrCreate(@)]
         IN IF h[3][MUST_VERIFY] = 0 /\ outs[i] = "fail_must_verify"
            THEN RunAttempts(outs, i + 1, h)
            ELSE IF g1[MEMBER] = 0 /\ outs[i] = "fail_member"
            THEN RunAttempts(outs, i + 1, <<TRUE, h[2], g1, FALSE>>)
            ELSE <<TRUE, TRUE, g2, TRUE>>

AttemptOutcomes == {"ok", "fail_must_verify", "fail_member"}

\* The body of initialize_roles: what it does to the handles and to the
\* roles of the guild.
InitializedRoles(guild_found, perms, outs) ==
    IF ~guild_found \/ ~perms
    THEN <<must_verify_role, member_role, guild_roles, FALSE>>
    ELSE RunAttempts(outs, 1, <<must_verify_role, member_role, guild_roles, FALSE>>)

initialize_roles(guild_found, perms, outs) ==
    /\ LET h == InitializedRoles(guild_found, perms, outs)
       IN /\ must_verify_role' = h[1]
          /\ member_role' = h[2]
          /\ guild_roles' = h[3]
          /\ last' = Event("initialize_roles", IF h[4] THEN "ok" ELSE "logged")
    /\ UNCHANGED <<now, advances, guild_members, roles, unverified_users,
                   recently_verified_users, demoted_at, cleared>>
    /\ UNCHANGED suspended
    /\ UNCHANGED other_cogs
    /\ UNCHANGED joined_at

\* The listener on_guild_role_update; before names the role that was
\* updated.  The condition reads the id of both handles without testing
\* them: an unset handle raises unless the first comparison already holds.
\* When the updated role is a tracked one, initialize_roles runs again.
on_guild_role_update(before, guild_found, perms, outs) ==
    /\ before \in RoleNames => guild_roles[before] > 0
    /\ IF ~must_verify_role
       THEN /\ UNCHANGED <<must_verify_role, member_role, guild_roles>>
            /\ last' = Event("on_guild_role_update", "raised")
       ELSE IF before # MUST_VERIFY /\ ~member_role
       THEN /\ UNCHANGED <<must_verify_role, member_role, guild_roles>>
            /\ last' = Event("on_guild_role_update", "raised")
       ELSE IF before \in RoleNames
       THEN LET h == InitializedRoles(guild_found, perms, outs)
            IN /\ must_verify_role' = h[1]
               /\ member_role' = h[2]
               /\ guild_roles' = h[3]
               /\ last' = Event("on_guild_role_update", "ok")
       ELSE /\ UNCHANGED <<must_verify_role, member_role, guild_roles>>
            /\ last' = Event("on_guild_role_update", "ok")
    /\ UNCHANGED <<now, advances, guild_members, roles, unverified_users,
                   recently_verified_users, demoted_at, cleared>>
    /\ UNCHANGED suspended
    /\ UNCHANGED other_cogs
    /\ UNCHANGED joined_at

\* --------------------------------------------------------------- events
\* The outbound calls of a try block, in the order the code makes them.
OutboundCalls == {"remove_roles", "add_roles", "send"}

\* Mutant: the role is assigned but the member is not tracked.
TrackJoin_untracked(pending, member, t) == pending

\* The pending dict after on_member_join tracked the member at time t.
TrackJoin(pending, member, t) == DictSet(pending, member, t)

\* A user joins the guild (the platform gives them no role) and the
\* listener on_member_join runs; add_ok is whether member.add_roles returns.
on_member_join(member, manage_roles, add_ok) ==
    /\ member \notin guild_members
    /\ guild_members' = guild_members \cup {member}
    /\ IF ~must_verify_role
       THEN /\ UNCHANGED <<roles, unverified_users>>
            /\ last' = Event("on_member_join", "logged")
       ELSE IF ~manage_roles
       THEN /\ UNCHANGED <<roles, unverified_users>>
            /\ last' = Event("on_member_join", "logged")
       ELSE IF add_ok
       THEN /\ roles' = [roles EXCEPT ![member] = @ \cup {MUST_VERIFY}]
            /\ unverified_users' = TrackJoin(unverified_users, member, now)
            /\ last' = Event("on_member_join", "ok")
       ELSE /\ UNCHANGED <<roles, unverified_users>>
            /\ last' = Event("on_member_join", "logged")
    /\ UNCHANGED <<now, advances, must_verify_role, member_role,
                   recently_verified_users, demoted_at, cleared, guild_roles>>
    /\ UNCHANGED suspended
    /\ UNCHANGED other_cogs

\* A member leaves the guild on their own; the cog has no listener for it.
Leave(member) ==
    /\ member \in guild_members
    /\ guild_members' = guild_members \ {member}
    /\ roles' = [roles EXCEPT ![member] = {}]
    /\ demoted_at' = [demoted_at EXCEPT ![member] = None]
    /\ last' = Event("Leave", "ok")
    /\ UNCHANGED <<now, advances, must_verify_role, member_role,
                   unverified_users, recently_verified_users, cleared,
                   guild_roles>>
    /\ UNCHANGED suspended
    /\ UNCHANGED other_cogs
    /\ UNCHANGED joined_at

\* Mutant: the check passes for every caller in the guild.
is_admin_or_moderator_any(in_guild, user_roles) == in_guild

\* The predicate of the check is_admin_or_moderator.
is_admin_or_moderator(in_guild, user_roles) ==
    IF ~in_guild THEN FALSE
    ELSE ADMIN \in user_roles \/ MODERATOR \in user_roles

\* The calls of verify_user that can raise, besides those of OutboundCalls:
\* "defer" is interaction.response.defer, "reply" is interaction.followup.send
\* raising every time it is called ("send" is the followup.send of the try
\* block raising, the one of the except clause returning).
VerifyCalls == {"defer", "reply"} \cup OutboundCalls

\* Mutant: the promotion keeps the pending entry and records no time.
PromotedEntries_kept(pending, recent, t) == <<pending, recent>>

\* The two entries <<pending, recent>> of a member after the try block of
\* verify_user in which no call raised, at time t.
PromotedEntries(pending, recent, t) == <<None, t>>

\* The slash command verify_user.  A failed check never reaches the body:
\* the tree's on_error handler answers it.  fail_at names the call that
\* raises, "none" when all succeed.  Either except clause answers the caller
\* with an error message; defer and the followup.send calls outside the try
\* block and inside the except clauses are not guarded.
verify_user(in_guild, user_roles, member, fail_at) ==
    /\ member \in guild_members
    /\ IF ~is_admin_or_moderator(in_guild, user_roles)
       THEN /\ UNCHANGED <<roles, unverified_users, recently_verified_users,
                           demoted_at, cleared>>
            /\ last' = Event("verify_user", "denied")
       ELSE IF fail_at = "defer"
       THEN /\ UNCHANGED <<roles, unverified_users, recently_verified_users,
                           demoted_at, cleared>>
            /\ last' = Event("verify_user", "raised")
       ELSE IF ~must_verify_role \/ ~member_role
       THEN /\ UNCHANGED <<roles, unverified_users, recently_verified_users,
                           demoted_at, cleared>>
            /\ last' = Event("verify_user",
                             IF fail_at = "reply" THEN "raised" ELSE "rejected")
       ELSE IF MUST_VERIFY \notin roles[member]
       THEN /\ UNCHANGED <<roles, unverified_users, recently_verified_users,
                           demoted_at, cleared>>
            /\ last' = Event("verify_user",
                             IF fail_at = "reply" THEN "raised" ELSE "rejected")
       ELSE /\ roles' = [roles EXCEPT ![member] =
                   IF fail_at = "remove_roles" THEN @
                   ELSE IF fail_at = "add_roles" THEN @ \ {MUST_VERIFY}
                   ELSE (@ \ {MUST_VERIFY}) \cup {MEMBER}]
            /\ IF fail_at = "none"
               THEN LET entries == PromotedEntries(unverified_users[member],
                                       recently_verified_users[member], now)
                    IN /\ unverified_users' =
                              DictSet(unverified_users, member, entries[1])
                       /\ recently_verified_users' =
                              DictSet(recently_verified_users, member, entries[2])
                       /\ demoted_at' = [demoted_at EXCEPT ![member] = None]
                       /\ cleared' = [cleared EXCEPT ![member] = FALSE]
                       /\ last' = Event("verify_user", "ok")
               ELSE /\ UNCHANGED <<unverified_users, recently_verified_users,
                                   demoted_at, cleared>>
                    /\ last' = Event("verify_user",
                                     IF fail_at = "reply" THEN "raised"
                                     ELSE "rejected")
    /\ UNCHANGED <<now, advances, guild_members, must_verify_role, member_role,
                   guild_roles>>
    /\ UNCHANGED suspended
    /\ UNCHANGED other_cogs
    /\ UNCHANGED joined_at

\* Mutant: the message clears the entry of every user.
ProofOfActivity_all(recent, author) == EmptyDict

\* Mutant: the message leaves the entry in place.
ProofOfActivity_kept(recent, author) == recent

\* The recently-verified dict after a message of a member holding Member.
ProofOfActivity(recent, author) == DictPop(recent, author)

\* The listener on_message; in_guild is message.guild being set.
on_message(author, in_guild) ==
    /\ in_guild => author \in guild_members
    /\ IF in_guild /\ member_role /\ MEMBER \in roles[author]
       THEN /\ recently_verified_users' =
                   ProofOfActivity(recently_verified_users, author)
            /\ cleared' = [cleared EXCEPT ![author] =
                   IF Has(recently_verified_users, author) THEN TRUE ELSE @]
            /\ last' = Event("on_message", "ok")
       ELSE /\ UNCHANGED <<recently_verified_users, cleared>>
            /\ last' = Event("on_message", "ok")
    /\ UNCHANGED <<now, advances, guild_members, roles, must_verify_role,
                   member_role, unverified_users, demoted_at, guild_roles>>
    /\ UNCHANGED suspended
    /\ UNCHANGED other_cogs
    /\ UNCHANGED joined_at

\* --------------------------------------------------------------- sweeps
\* Mutant: the scan keeps the entries of users who left.
Present_kept(d) == d

\* The dict after the scan dropped the entries of users that
\* guild.get_member() does not find.
Present(d) == [u \in Users |-> IF u \in guild_members THEN d[u] ELSE None]

\* Mutant: the comparison includes the boundary.
PendingExpired_ge(t, join_time) ==
    (t - join_time) >= VERIFICATION_PERIOD_HOURS * SecondsPerHour

\* (now - join_time).total_seconds() > VERIFICATION_PERIOD_HOURS * 3600
PendingExpired(t, join_time) ==
    (t - join_time) > VERIFICATION_PERIOD_HOURS * SecondsPerHour

\* (now - verify_time).total_seconds() > POST_ACTIVITY_PERIOD_HOURS * 3600
RecentExpired(t, verify_time) ==
    (t - verify_time) > POST_ACTIVITY_PERIOD_HOURS * SecondsPerHour

\* The members the scan of check_unverified_users puts on to_kick at time t.
ToKick(pending, t) ==
    {u \in Keys(Present(pending)) : PendingExpired(t, pending[u])}

\* The members the scan of check_verified_users_activity puts on to_reverify.
ToReverify(recent, t) ==
    {u \in Keys(Present(recent)) : RecentExpired(t, recent[u])}

\* Mutant: the entry is deleted before the kick call is known to succeed.
AfterKick_early(entry, kick_ok) == None

\* The pending entry of a member of to_kick after the try block of the
\* kick loop, kick_ok telling whether member.kick() returned.
AfterKick(entry, kick_ok) == IF kick_ok THEN None ELSE entry

\* Mutant: the first kick call that raises ends the loop.
Kicked_abort(selected, kick_ok) ==
    IF \E m \in selected : ~kick_ok[m] THEN {} ELSE selected

\* The members of to_kick that the kick loop removes from the guild:
\* each member has its own try block.
Kicked(selected, kick_ok) == {m \in selected : kick_ok[m]}

\* check_unverified_users.  kick_ok[m] is whether the kick call of member m
\* returns.
check_unverified_users(guild_found, kick_members, kick_ok) ==
    /\ IF ~guild_found
       THEN /\ UNCHANGED <<unverified_users, guild_members, roles, demoted_at>>
            /\ last' = Event("check_unverified_users", "logged")
       ELSE IF ~kick_members
       THEN /\ unverified_users' = Present(unverified_users)
            /\ UNCHANGED <<guild_members, roles, demoted_at>>
            /\ last' = Event("check_unverified_users", "logged")
       ELSE LET selected == ToKick(unverified_users, now)
                kicked == Kicked(selected, kick_ok)
            IN /\ guild_members' = guild_members \ kicked
               /\ roles' = [u \in Users |-> IF u \in kicked THEN {} ELSE roles[u]]
               /\ unverified_users' =
                      [u \in Users |->
                          IF u \in selected
                          THEN AfterKick(unverified_users[u], u \in kicked)
                          ELSE Present(unverified_users)[u]]
               /\ demoted_at' = [u \in Users |->
                                    IF u \in kicked THEN None ELSE demoted_at[u]]
               /\ last' = Event("check_unverified_users",
                                IF kicked = selected THEN "ok" ELSE "kick_failed")
    /\ UNCHANGED <<now, advances, must_verify_role, member_role,
                   recently_verified_users, cleared, guild_roles>>
    /\ UNCHANGED suspended
    /\ UNCHANGED other_cogs
    /\ UNCHANGED joined_at

\* The outbound call at which the try block of a demotion stops: a handle
\* that is unset makes the call that takes it raise.
StopsAt(fail_at) ==
    IF ~member_role THEN "remove_roles"
    ELSE IF ~must_verify_role /\ fail_at \in {"send", "none"} THEN "add_roles"
    ELSE fail_at

\* member.roles after the try block of a demotion that stopped at stop.
DemotedRoles(rs, stop) ==
    IF stop = "remove_roles" THEN rs
    ELSE IF stop = "add_roles" THEN rs \ {MEMBER}
    ELSE (rs \ {MEMBER}) \cup {MUST_VERIFY}

\* The two entries <<pending, recent>> of a member after the try block of a
\* demotion in which no call raised, at sweep time t.
DemotedEntries(pending, recent, t) == <<pending, None>>

\* The members of to_reverify whose try block runs to its end: each member
\* has its own try block.
Demoted(selected, fail_at) == {m \in selected : StopsAt(fail_at[m]) = "none"}

\* check_verified_users_activity.  fail_at[m] names the outbound call that
\* raises for member m, "none" when all three return.
check_verified_users_activity(guild_found, manage_roles, fail_at) ==
    /\ IF ~guild_found
       THEN /\ UNCHANGED <<unverified_users, recently_verified_users, roles,
                           demoted_at>>
            /\ last' = Event("check_verified_users_activity", "logged")
       ELSE IF ~manage_roles
       THEN /\ recently_verified_users' = Present(recently_verified_users)
            /\ UNCHANGED <<unverified_users, roles, demoted_at>>
            /\ last' = Event("check_verified_users_activity", "logged")
       ELSE LET selected == ToReverify(recently_verified_users, now)
                done == Demoted(selected, fail_at)
                entries == [m \in Users |->
                               DemotedEntries(unverified_users[m],
                                              recently_verified_users[m], now)]
            IN /\ roles' = [u \in Users |->
                              IF u \in selected
                              THEN DemotedRoles(roles[u], StopsAt(fail_at[u]))
                              ELSE roles[u]]
               /\ unverified_users' =
                      [u \in Users |-> IF u \in done THEN entries[u][1]
                                       ELSE unverified_users[u]]
               /\ recently_verified_users' =
                      [u \in Users |-> IF u \in done THEN entries[u][2]
                                       ELSE Present(recently_verified_users)[u]]
               /\ demoted_at' = [u \in Users |->
                                    IF u \in done THEN now ELSE demoted_at[u]]
               /\ last' = Event("check_verified_users_activity",
                                IF done = selected THEN "ok" ELSE "call_failed")
    /\ UNCHANGED <<now, advances, guild_members, must_verify_role, member_role,
                   cleared, guild_roles>>
    /\ UNCHANGED suspended
    /\ UNCHANGED other_cogs
    /\ UNCHANGED joined_at

\* ------------------------------------------------------ clock, restart
Tick ==
    /\ advances < MaxAdvances
    /\ now' = now + DelayAt(advances + 1)
    /\ advances' = advances + 1
    /\ last' = Event("Tick", "ok")
    /\ UNCHANGED <<guild_members, roles, must_verify_role, member_role,
                   unverified_users, recently_verified_users, demoted_at, cleared,
                   guild_roles>>
    /\ UNCHANGED suspended
    /\ UNCHANGED other_cogs
    /\ UNCHANGED joined_at

\* What the constructor of the next cog makes of the two dicts the unloaded
\* cog held: <<unverified_users, recently_verified_users>>.
LoadedLedger(pending, recent) == <<EmptyDict, EmptyDict>>

\* cog_unload cancels both loops; setup then constructs a new cog.
Restart ==
    /\ LET ledger == LoadedLedger(unverified_users, recently_verified_users)
       IN /\ unverified_users' = ledger[1]
          /\ recently_verified_users' = ledger[2]
    /\ must_verify_role' = FALSE
    /\ member_role' = FALSE
    /\ demoted_at' = [u \in Users |-> None]
    /\ last' = Event("Restart", "ok")
    /\ UNCHANGED <<now, advances, guild_members, roles, cleared, guild_roles>>
    /\ UNCHANGED suspended
    /\ UNCHANGED other_cogs
    /\ UNCHANGED joined_at

\* ------------------------------------------------------- specification
\* The runs of the retry loop: n attempts that raise at the same call, then
\* attempts that succeed.
AttemptRuns ==
    {[i \in 1..MaxAttempts |-> IF i <= n THEN f ELSE "ok"] :
        n \in 0..MaxAttempts, f \in AttemptOutcomes \ {"ok"}}

\* A create_role call can only raise when it is made: with both roles in the
\* guild, or the guild or the permissions missing, the outcomes are not read.
RunsRead(reached) ==
    IF reached /\ \E n \in RoleNames : guild_roles[n] = 0
    THEN AttemptRuns
    ELSE {[i \in 1..MaxAttempts |-> "ok"]}

InitializeRoles ==
    \E g \in BOOLEAN :
    \E p \in IF g THEN BOOLEAN ELSE {TRUE} :
    \E outs \in RunsRead(g /\ p) :
        initialize_roles(g, p, outs)

Join ==
    /\ \E u \in Users, p \in BOOLEAN :
       \E ok \in IF p THEN BOOLEAN ELSE {TRUE} :
           on_member_join(u, p, ok)
    /\ UNCHANGED joined_at

MemberLeaves == \E u \in Users : Leave(u)

\* Who invokes the command: <<interaction.guild is set, the caller's roles>>.
Callers == {<<TRUE, {ADMIN}>>, <<TRUE, {MODERATOR, MEMBER}>>,
            <<TRUE, {MEMBER}>>, <<FALSE, {ADMIN}>>}

\* The calls that raise are drawn for one caller that passes the check: the
\* body does not read who the caller is.
ExplicitVerify ==
    \E c \in Callers, m \in guild_members :
    \E f \in IF c # <<TRUE, {ADMIN}>> THEN {"none"}
              ELSE IF MUST_VERIFY \in roles[m] THEN VerifyCalls \cup {"none"}
              ELSE {"defer", "reply", "none"} :
        verify_user(c[1], c[2], m, f)

ActivityProof == \E u \in Users, g \in BOOLEAN : on_message(u, g)

DailySweep ==
    \E g \in BOOLEAN :
    \E p \in IF g THEN BOOLEAN ELSE {TRUE} :
    \E ok \in [IF g /\ p THEN ToKick(unverified_users, now) ELSE {} -> BOOLEAN] :
        check_unverified_users(g, p, ok)

HourlySweep ==
    \E g \in BOOLEAN :
    \E p \in IF g THEN BOOLEAN ELSE {TRUE} :
    \E f \in [IF g /\ p THEN ToReverify(recently_verified_users, now) ELSE {}
                  -> OutboundCalls \cup {"none"}] :
        check_verified_users_activity(g, p, f)

RoleUpdated ==
    \E b \in RoleNames \cup {"other"}, g \in BOOLEAN :
    \E outs \in RunsRead(g) :
        on_guild_role_update(b, g, g, outs)

Next ==
    \/ InitializeRoles
    \/ RoleUpdated
    \/ Join
    \/ MemberLeaves
    \/ ExplicitVerify
    \/ ActivityProof
    \/ DailySweep
    \/ HourlySweep
    \/ Tick
    \/ Restart

Spec == Init /\ [][Next]_vars

\* ------------------------------------------- sweeps, call by call
\* The orders in which a scan can list the members of S: a dict is read in
\* the order of insertion, which is the order of the entry times; entries
\* of the same instant were inserted in either order.
Orders(S, d) ==
    {q \in [1..Cardinality(S) -> S] :
        \A i, j \in 1..Cardinality(S) :
            i < j => (q[i] # q[j] /\ d[q[i]] <= d[q[j]])}

\* One turn of the kick loop, for the first member of q, on the pending
\* dict the scan left.  The kick call of a user who is no longer a member
\* raises; a del of an entry that is gone raises KeyError after the kick.
KickNext(pending, q, kick_ok) ==
    LET m == Head(q)
        kicked == kick_ok /\ m \in guild_members
    IN /\ guild_members' = IF kicked THEN guild_members \ {m} ELSE guild_members
       /\ roles' = IF kicked THEN [roles EXCEPT ![m] = {}] ELSE roles
       /\ unverified_users' = [pending EXCEPT ![m] = AfterKick(@, kicked)]
       /\ demoted_at' = IF kicked THEN [demoted_at EXCEPT ![m] = None]
                        ELSE demoted_at
       /\ to_kick' = Tail(q)
       /\ last' = Event("check_unverified_users",
                        IF kicked THEN "ok" ELSE "kick_failed")

\* check_unverified_users from its start to the end of the first turn of the
\* kick loop: the scan has no await, the loop is then suspended in the kick
\* call of each member in turn.  tasks.loop starts no second run of the
\* body while one is suspended.
check_unverified_users_begin(guild_found, kick_members, q, kick_ok) ==
    /\ to_kick = <<>>
    /\ IF ~guild_found
       THEN /\ UNCHANGED <<unverified_users, guild_members, roles, demoted_at,
                           to_kick>>
            /\ last' = Event("check_unverified_users", "logged")
       ELSE IF ~kick_members
       THEN /\ unverified_users' = Present(unverified_users)
            /\ UNCHANGED <<guild_members, roles, demoted_at, to_kick>>
            /\ last' = Event("check_unverified_users", "logged")
       ELSE IF q = <<>>
       THEN /\ unverified_users' = Present(unverified_users)
            /\ UNCHANGED <<guild_members, roles, demoted_at, to_kick>>
            /\ last' = Event("check_unverified_users", "ok")
       ELSE KickNext(Present(unverified_users), q, kick_ok)
    /\ UNCHANGED <<now, advances, must_verify_role, member_role,
                   recently_verified_users, cleared, guild_roles,
                   to_reverify, init_run, awaiting>>
    /\ UNCHANGED other_cogs
    /\ UNCHANGED joined_at

\* The kick call of the previous member has returned: the next turn.
check_unverified_users_resume(kick_ok) ==
    /\ to_kick # <<>>
    /\ KickNext(unverified_users, to_kick, kick_ok)
    /\ UNCHANGED <<now, advances, must_verify_role, member_role,
                   recently_verified_users, cleared, guild_roles,
                   to_reverify, init_run, awaiting>>
    /\ UNCHANGED other_cogs
    /\ UNCHANGED joined_at

\* One turn of the demotion loop, for the first member of q, on the
\* recently-verified dict the scan left.  The role calls of a user who is
\* no longer a member raise.
DemoteNext(recent, q, fail_at) ==
    LET m == Head(q)
        stop == IF m \in guild_members THEN StopsAt(fail_at) ELSE "remove_roles"
        entries == DemotedEntries(unverified_users[m], recent[m], now)
    IN /\ roles' = [roles EXCEPT ![m] = DemotedRoles(@, stop)]
       /\ unverified_users' =
              IF stop = "none" THEN [unverified_users EXCEPT ![m] = entries[1]]
              ELSE unverified_users
       /\ recently_verified_users' =
              IF stop = "none" THEN [recent EXCEPT ![m] = entries[2]] ELSE recent
       /\ demoted_at' = IF stop = "none" THEN [demoted_at EXCEPT ![m] = now]
                        ELSE demoted_at
       /\ to_reverify' = Tail(q)
       /\ last' = Event("check_verified_users_activity",
                        IF stop = "none" THEN "ok" ELSE "call_failed")

\* check_verified_users_activity from its start to the end of the first
\* turn of the demotion loop.
check_verified_users_activity_begin(guild_found, manage_roles, q, fail_at) ==
    /\ to_reverify = <<>>
    /\ IF ~guild_found
       THEN /\ UNCHANGED <<unverified_users, recently_verified_users, roles,
                           demoted_at, to_reverify>>
            /\ last' = Event("check_verified_users_activity", "logged")
       ELSE IF ~manage_roles
       THEN /\ recently_verified_users' = Present(recently_verified_users)
            /\ UNCHANGED <<unverified_users, roles, demoted_at, to_reverify>>
            /\ last' = Event("check_verified_users_activity", "logged")
       ELSE IF q = <<>>
       THEN /\ recently_verified_users' = Present(recently_verified_users)
            /\ UNCHANGED <<unverified_users, roles, demoted_at, to_reverify>>
            /\ last' = Event("check_verified_users_activity", "ok")
       ELSE DemoteNext(Present(recently_verified_users), q, fail_at)
    /\ UNCHANGED <<now, advances, guild_members, must_verify_role, member_role,
                   cleared, guild_roles, to_kick, init_run, awaiting>>
    /\ UNCHANGED other_cogs
    /\ UNCHANGED joined_at

\* The calls for the previous member have returned: the next turn.
check_verified_users_activity_resume(fail_at) ==
    /\ to_reverify # <<>>
    /\ DemoteNext(recently_verified_users, to_reverify, fail_at)
    /\ UNCHANGED <<now, advances, guild_members, must_verify_role, member_role,
                   cleared, guild_roles, to_kick, init_run, awaiting>>
    /\ UNCHANGED other_cogs
    /\ UNCHANGED joined_at

AwaitInitializeRoles ==
    initialize_roles(TRUE, TRUE, [i \in 1..MaxAttempts |-> "ok"])

AwaitJoin ==
    /\ \E u \in Users : on_member_join(u, TRUE, TRUE)
    /\ UNCHANGED joined_at

AwaitVerify == \E m \in guild_members : verify_user(TRUE, {ADMIN}, m, "none")

AwaitMessage == \E u \in guild_members : on_message(u, TRUE)

DailyBegin ==
    \E g \in BOOLEAN :
    \E p \in IF g THEN BOOLEAN ELSE {TRUE} :
    \E q \in Orders(ToKick(unverified_users, now), unverified_users) :
    \E ok \in IF g /\ p /\ q # <<>> THEN BOOLEAN ELSE {TRUE} :
        check_unverified_users_begin(g, p, q, ok)

DailyResume == \E ok \in BOOLEAN : check_unverified_users_resume(ok)

\* The calls of a demotion that raise under SpecAwait.
AwaitFailures == {"remove_roles", "none"}

HourlyBegin ==
    \E g \in BOOLEAN :
    \E p \in IF g THEN BOOLEAN ELSE {TRUE} :
    \E q \in Orders(ToReverify(recently_verified_users, now),
                     recently_verified_users) :
    \E f \in IF g /\ p /\ q # <<>> THEN AwaitFailures ELSE {"none"} :
        check_verified_users_activity_begin(g, p, q, f)

HourlyResume == \E f \in AwaitFailures : check_verified_users_activity_resume(f)

NextAwait ==
    \/ AwaitInitializeRoles
    \/ AwaitJoin
    \/ AwaitVerify
    \/ AwaitMessage
    \/ DailyBegin
    \/ DailyResume
    \/ HourlyBegin
    \/ HourlyResume
    \/ Tick

SpecAwait == Init /\ [][NextAwait]_vars

\* ----------------------------------------- startup, call by call
\* Mutant: the loop goes on after the last attempt of range(3).
LoopEnds_never(attempt) == FALSE

\* for _ in range(3): the attempt that has just failed was the last one.
LoopEnds(attempt) == attempt >= MaxAttempts

\* Attempt a of run r, from the start of _fetch_or_create_roles to its first
\* suspension: a role that discord.utils.get finds in guild.roles is taken
\* without an await, a role that it does not find is created, and the run
\* is suspended in guild.create_role.
fetch_or_create_roles(r, a) ==
    IF guild_roles[MUST_VERIFY] = 0
    THEN /\ init_run' = [init_run EXCEPT ![r] =
                [pc |-> "create_must_verify", attempt |-> a]]
         /\ UNCHANGED <<must_verify_role, member_role>>
         /\ last' = Event("initialize_roles", "suspended")
    ELSE IF guild_roles[MEMBER] = 0
    THEN /\ init_run' = [init_run EXCEPT ![r] =
                [pc |-> "create_member", attempt |-> a]]
         /\ must_verify_role' = TRUE
         /\ UNCHANGED member_role
         /\ last' = Event("initialize_roles", "suspended")
    ELSE /\ init_run' = [init_run EXCEPT ![r] = [pc |-> "done", attempt |-> a]]
         /\ must_verify_role' = TRUE
         /\ member_role' = TRUE
         /\ last' = Event("initialize_roles", "ok")

\* Run r of initialize_roles starts: wait_until_ready has returned.
initialize_roles_begin(r, guild_found, perms) ==
    /\ init_run[r].pc = "idle"
    /\ IF ~guild_found \/ ~perms
       THEN /\ init_run' = [init_run EXCEPT ![r] = [pc |-> "done", attempt |-> 0]]
            /\ UNCHANGED <<must_verify_role, member_role>>
            /\ last' = Event("initialize_roles", "logged")
       ELSE fetch_or_create_roles(r, 1)
    /\ UNCHANGED <<now, advances, guild_members, roles, unverified_users,
                   recently_verified_users, demoted_at, cleared, guild_roles,
                   to_kick, to_reverify, awaiting>>
    /\ UNCHANGED other_cogs
    /\ UNCHANGED joined_at

\* guild.create_role of run r returns the new role (ok) or raises.  The new
\* role is in guild.roles from then on; a create_role that raises ends the
\* attempt, and the run sleeps before the next one.
create_role_returns(r, ok) ==
    /\ init_run[r].pc \in {"create_must_verify", "create_member"}
    /\ IF ~ok
       THEN /\ init_run' = [init_run EXCEPT ![r].pc = "sleep"]
            /\ UNCHANGED <<must_verify_role, member_role, guild_roles>>
            /\ last' = Event("initialize_roles", "logged")
       ELSE IF init_run[r].pc = "create_must_verify"
       THEN /\ guild_roles' = [guild_roles EXCEPT ![MUST_VERIFY] = @ + 1]
            /\ must_verify_role' = TRUE
            /\ IF guild_roles[MEMBER] = 0
               THEN /\ init_run' = [init_run EXCEPT ![r].pc = "create_member"]
                    /\ UNCHANGED member_role
                    /\ last' = Event("initialize_roles", "suspended")
               ELSE /\ init_run' = [init_run EXCEPT ![r].pc = "done"]
                    /\ member_role' = TRUE
                    /\ last' = Event("initialize_roles", "ok")
       ELSE /\ guild_roles' = [guild_roles EXCEPT ![MEMBER] = @ + 1]
            /\ member_role' = TRUE
            /\ init_run' = [init_run EXCEPT ![r].pc = "done"]
            /\ UNCHANGED must_verify_role
            /\ last' = Event("initialize_roles", "ok")
    /\ UNCHANGED <<now, advances, guild_members, roles, unverified_users,
                   recently_verified_users, demoted_at, cleared,
                   to_kick, to_reverify, awaiting>>
    /\ UNCHANGED other_cogs
    /\ UNCHANGED joined_at

\* asyncio.sleep(5) of run r returns: the next attempt, or the end of the
\* loop and of the run.
sleep_returns(r) ==
    /\ init_run[r].pc = "sleep"
    /\ IF LoopEnds(init_run[r].attempt)
       THEN /\ init_run' = [init_run EXCEPT ![r].pc = "done"]
            /\ UNCHANGED <<must_verify_role, member_role>>
            /\ last' = Event("initialize_roles", "logged")
       ELSE fetch_or_create_roles(r, init_run[r].attempt + 1)
    /\ UNCHANGED <<now, advances, guild_members, roles, unverified_users,
                   recently_verified_users, demoted_at, cleared, guild_roles,
                   to_kick, to_reverify, awaiting>>
    /\ UNCHANGED other_cogs
    /\ UNCHANGED joined_at

RunBegins ==
    \E r \in Runs, g \in BOOLEAN :
    \E p \in IF g THEN BOOLEAN ELSE {TRUE} :
        initialize_roles_begin(r, g, p)

CreateRoleReturns == \E r \in Runs, ok \in BOOLEAN : create_role_returns(r, ok)

SleepReturns == \E r \in Runs : sleep_returns(r)

NextStartup ==
    \/ RunBegins
    \/ CreateRoleReturns
    \/ SleepReturns

SpecStartup == Init /\ [][NextStartup]_vars

\* --------------------------------- sweeps, call by call, and cog_unload
\* The cog is loaded: cog_unload has not run.
Loaded == last.op # "cog_unload"

\* check_unverified_users from its start to its first suspension, with the
\* guild found and the kick permission present: the scan, then the kick
\* call of the first member of to_kick.
check_unverified_users_scan(q) ==
    /\ to_kick = <<>>
    /\ unverified_users' = Present(unverified_users)
    /\ to_kick' = q
    /\ last' = Event("check_unverified_users",
                     IF q = <<>> THEN "ok" ELSE "suspended")
    /\ UNCHANGED <<now, advances, guild_members, roles, must_verify_role,
                   member_role, recently_verified_users, demoted_at, cleared,
                   guild_roles, to_reverify, init_run, awaiting>>
    /\ UNCHANGED other_cogs
    /\ UNCHANGED joined_at

\* check_verified_users_activity from its start to its first suspension,
\* with the guild found and the manage-roles permission present: the scan,
\* then the remove_roles call for the first member of to_reverify.
check_verified_users_activity_scan(q) ==
    /\ to_reverify = <<>>
    /\ recently_verified_users' = Present(recently_verified_users)
    /\ to_reverify' = q
    /\ awaiting' = IF q = <<>> THEN "none" ELSE "remove_roles"
    /\ last' = Event("check_verified_users_activity",
                     IF q = <<>> THEN "ok" ELSE "suspended")
    /\ UNCHANGED <<now, advances, guild_members, roles, must_verify_role,
                   member_role, unverified_users, demoted_at, cleared,
                   guild_roles, to_kick, init_run>>
    /\ UNCHANGED other_cogs
    /\ UNCHANGED joined_at

\* member.roles once the call of the demotion has taken effect.
AfterCall(rs, call) ==
    IF call = "remove_roles" THEN rs \ {MEMBER}
    ELSE IF call = "add_roles" THEN rs \cup {MUST_VERIFY}
    ELSE rs

\* The call that follows in the try block of the demotion.
CallAfter(call) ==
    IF call = "remove_roles" THEN "add_roles"
    ELSE IF call = "add_roles" THEN "send"
    ELSE "none"

\* The call the demotion of the first member of to_reverify is suspended in
\* returns: the next call of the try block is made, and after member.send
\* the entry is popped and the loop turns to the next member.
demotion_call_returns ==
    /\ to_reverify # <<>>
    /\ awaiting # "none"
    /\ LET m == Head(to_reverify)
           entries == DemotedEntries(unverified_users[m],
                                     recently_verified_users[m], now)
       IN /\ roles' = [roles EXCEPT ![m] = AfterCall(@, awaiting)]
          /\ IF CallAfter(awaiting) # "none"
             THEN /\ awaiting' = CallAfter(awaiting)
                  /\ UNCHANGED <<unverified_users, recently_verified_users,
                                 demoted_at, to_reverify>>
                  /\ last' = Event("check_verified_users_activity", "suspended")
             ELSE /\ unverified_users' =
                         [unverified_users EXCEPT ![m] = entries[1]]
                  /\ recently_verified_users' =
                         [recently_verified_users EXCEPT ![m] = entries[2]]
                  /\ demoted_at' = [demoted_at EXCEPT ![m] = now]
                  /\ to_reverify' = Tail(to_reverify)
                  /\ awaiting' = IF Tail(to_reverify) = <<>> THEN "none"
                                 ELSE "remove_roles"
                  /\ last' = Event("check_verified_users_activity",
                                   IF Tail(to_reverify) = <<>> THEN "ok"
                                   ELSE "suspended")
    /\ UNCHANGED <<now, advances, guild_members, must_verify_role, member_role,
                   cleared, guild_roles, to_kick, init_run>>
    /\ UNCHANGED other_cogs
    /\ UNCHANGED joined_at

\* cog_unload cancels both loops: CancelledError is raised in each suspended
\* sweep at the call it awaits.  It is no Exception, so neither except
\* clause catches it and the sweep ends there.  The request of the awaited
\* call may have reached the platform (kick_landed, call_landed) or not.
cog_unload(kick_landed, call_landed) ==
    /\ to_kick # <<>> \/ to_reverify # <<>>
    /\ LET kicked == IF to_kick # <<>> /\ kick_landed
                     THEN {Head(to_kick)} \cap guild_members ELSE {}
           called == IF to_reverify # <<>> /\ call_landed
                     THEN {Head(to_reverify)} \ kicked ELSE {}
       IN /\ guild_members' = guild_members \ kicked
          /\ roles' = [u \in Users |->
                          IF u \in kicked THEN {}
                          ELSE IF u \in called THEN AfterCall(roles[u], awaiting)
                          ELSE roles[u]]
          /\ demoted_at' = [u \in Users |->
                               IF u \in kicked THEN None ELSE demoted_at[u]]
    /\ to_kick' = <<>>
    /\ to_reverify' = <<>>
    /\ awaiting' = "none"
    /\ last' = Event("cog_unload", "ok")
    /\ UNCHANGED <<now, advances, must_verify_role, member_role,
                   unverified_users, recently_verified_users, cleared,
                   guild_roles, init_run>>
    /\ UNCHANGED other_cogs
    /\ UNCHANGED joined_at

CancelInitializeRoles == Loaded /\ AwaitInitializeRoles

CancelJoin == Loaded /\ AwaitJoin

CancelVerify == Loaded /\ AwaitVerify

CancelTick == Loaded /\ Tick

DailyScan ==
    /\ Loaded
    /\ \E q \in Orders(ToKick(unverified_users, now), unverified_users) :
          check_unverified_users_scan(q)

KickReturns == Loaded /\ \E ok \in BOOLEAN : check_unverified_users_resume(ok)

HourlyScan ==
    /\ Loaded
    /\ \E q \in Orders(ToReverify(recently_verified_users, now),
                       recently_verified_users) :
          check_verified_users_activity_scan(q)

DemotionCallReturns == Loaded /\ demotion_call_returns

CogUnload ==
    /\ Loaded
    /\ \E kick_landed \in BOOLEAN, call_landed \in BOOLEAN :
          cog_unload(kick_landed, call_landed)

NextCancel ==
    \/ CancelInitializeRoles
    \/ CancelJoin
    \/ CancelVerify
    \/ CancelTick
    \/ DailyScan
    \/ KickReturns
    \/ HourlyScan
    \/ DemotionCallReturns
    \/ CogUnload

SpecCancel == Init /\ [][NextCancel]_vars

\* ------------------------------------------------- sweeps that keep firing
\* The last advance of the clock after which a member who joins can still
\* outlast the verification window.
LastJoinAdvance == MaxAdvances - 2

\* A user joins while the clock can still run past their window.
LiveJoin == advances <= LastJoinAdvance /\ Join

\* Every kick call of the daily sweep at hand succeeds.
AllKicksOk == [m \in ToKick(unverified_users, now) |-> TRUE]

\* The daily sweep in which every kick call returns.
DailySweepKicks == check_unverified_users(TRUE, TRUE, AllKicksOk)

\* No member is verified and none leaves: members are only removed by a
\* kick.
NextLive ==
    \/ InitializeRoles
    \/ LiveJoin
    \/ DailySweep
    \/ Tick

\* tasks.loop(hours=24) fires the daily sweep again and again and the clock
\* moves on; a kick call that keeps being made eventually returns.
SpecLive ==
    /\ Init
    /\ [][NextLive]_vars
    /\ WF_vars(Tick)
    /\ WF_vars(DailySweepKicks)

\* ------------------------------------------------- leaving and rejoining
\* A user joins and the time of the join is recorded.
RecordedJoin ==
    \E u \in Users, p \in BOOLEAN :
    \E ok \in IF p THEN BOOLEAN ELSE {TRUE} :
        /\ on_member_join(u, p, ok)
        /\ joined_at' = [joined_at EXCEPT ![u] = now]

NextRejoin ==
    \/ InitializeRoles
    \/ RecordedJoin
    \/ MemberLeaves
    \/ DailySweep
    \/ Tick

SpecRejoin == Init /\ [][NextRejoin]_vars

\* ------------------------------------------------------ currency cog
\* The largest amount a command is invoked with.
MaxAmount == 2

\* The amounts a command is invoked with; 0 stands for the amounts the
\* commands reject.
Amounts == 0..MaxAmount

\* How many currency commands are invoked in a run.
MaxIssued == 4

\* get_balance: the balance of the row, 0 without a row.
get_balance(b, user_id) == b[user_id]

\* update_balance: its own session and transaction add amount to the row
\* (or insert it) and commit.
update_balance(b, user_id, amount) == [b EXCEPT ![user_id] = @ + amount]

\* A slot free for the next command.
Free(c) == in_flight[c].pc \in {"idle", "ended"}

Suspended(name, debtor, creditor, amount) ==
    [pc |-> "debit", name |-> name, debtor |-> debtor, creditor |-> creditor,
     amount |-> amount, debited |-> 0, credited |-> 0]

\* The command give from its start to its first update_balance call: the
\* balance is read by get_balance and tested, the debit is issued later, in
\* a session of its own.
give(c, giver, receiver, amount) ==
    /\ Free(c)
    /\ issued < MaxIssued
    /\ issued' = issued + 1
    /\ IF amount <= 0
       THEN /\ in_flight' = [in_flight EXCEPT ![c] = NoCommand]
            /\ last' = Event("give", "rejected")
       ELSE IF giver = receiver
       THEN /\ in_flight' = [in_flight EXCEPT ![c] = NoCommand]
            /\ last' = Event("give", "rejected")
       ELSE IF get_balance(balance, giver) < amount
       THEN /\ in_flight' = [in_flight EXCEPT ![c] = NoCommand]
            /\ last' = Event("give", "rejected")
       ELSE /\ in_flight' = [in_flight EXCEPT ![c] =
                   Suspended("give", giver, receiver, amount)]
            /\ last' = Event("give", "suspended")
    /\ UNCHANGED balance
    /\ UNCHANGED <<verification_cog, trading_cog>>

\* update_balance(giver_id, -amount) of give returns (ok) or raises: the
\* except clause answers with an error and the command ends.
give_debit(c, ok) ==
    /\ in_flight[c].name = "give"
    /\ in_flight[c].pc = "debit"
    /\ IF ok
       THEN /\ balance' = update_balance(balance, in_flight[c].debtor,
                                         -in_flight[c].amount)
            /\ in_flight' = [in_flight EXCEPT ![c].pc = "credit",
                                              ![c].debited = in_flight[c].amount]
            /\ last' = Event("give", "suspended")
       ELSE /\ UNCHANGED balance
            /\ in_flight' = [in_flight EXCEPT ![c].pc = "ended"]
            /\ last' = Event("give", "failed")
    /\ UNCHANGED issued
    /\ UNCHANGED <<verification_cog, trading_cog>>

\* update_balance(receiver_id, amount) of give returns (ok) or raises: the
\* except clause rolls back the session of give, which holds no statement,
\* and answers with an error; the debit was committed by its own session.
give_credit(c, ok) ==
    /\ in_flight[c].name = "give"
    /\ in_flight[c].pc = "credit"
    /\ IF ok
       THEN /\ balance' = update_balance(balance, in_flight[c].creditor,
                                         in_flight[c].amount)
            /\ in_flight' = [in_flight EXCEPT ![c].pc = "ended",
                                              ![c].credited = in_flight[c].amount]
            /\ last' = Event("give", "ok")
       ELSE /\ UNCHANGED balance
            /\ in_flight' = [in_flight EXCEPT ![c].pc = "ended"]
            /\ last' = Event("give", "failed")
    /\ UNCHANGED issued
    /\ UNCHANGED <<verification_cog, trading_cog>>

\* The command admin_remove from its start to its update_balance call.
admin_remove(c, user, amount) ==
    /\ Free(c)
    /\ issued < MaxIssued
    /\ issued' = issued + 1
    /\ IF amount <= 0
       THEN /\ in_flight' = [in_flight EXCEPT ![c] = NoCommand]
            /\ last' = Event("admin_remove", "rejected")
       ELSE IF get_balance(balance, user) < amount
       THEN /\ in_flight' = [in_flight EXCEPT ![c] = NoCommand]
            /\ last' = Event("admin_remove", "rejected")
       ELSE /\ in_flight' = [in_flight EXCEPT ![c] =
                   Suspended("admin_remove", user, None, amount)]
            /\ last' = Event("admin_remove", "suspended")
    /\ UNCHANGED balance
    /\ UNCHANGED <<verification_cog, trading_cog>>

\* update_balance(user.id, -amount) of admin_remove returns (ok) or raises;
\* the command has no try block.
admin_remove_debit(c, ok) ==
    /\ in_flight[c].name = "admin_remove"
    /\ in_flight[c].pc = "debit"
    /\ IF ok
       THEN /\ balance' = update_balance(balance, in_flight[c].debtor,
                                         -in_flight[c].amount)
            /\ in_flight' = [in_flight EXCEPT ![c].pc = "ended",
                                              ![c].debited = in_flight[c].amount]
            /\ last' = Event("admin_remove", "ok")
       ELSE /\ UNCHANGED balance
            /\ in_flight' = [in_flight EXCEPT ![c].pc = "ended"]
            /\ last' = Event("admin_remove", "raised")
    /\ UNCHANGED issued
    /\ UNCHANGED <<verification_cog, trading_cog>>

\* The command admin_add: one update_balance call, no test of the balance.
admin_add(user, amount) ==
    /\ issued < MaxIssued
    /\ issued' = issued + 1
    /\ IF amount <= 0
       THEN /\ UNCHANGED balance
            /\ last' = Event("admin_add", "rejected")
       ELSE /\ balance' = update_balance(balance, user, amount)
            /\ last' = Event("admin_add", "ok")
    /\ UNCHANGED in_flight
    /\ UNCHANGED <<verification_cog, trading_cog>>

\* The names under which the cogs are registered: the class names.
CogNames == {"Verification", "CurrencySystem", "StoreCog", "TradingCog"}

\* bot.get_cog(name) finds a cog.
get_cog(name) == name \in CogNames

\* StoreCog.calculate_price
calculate_price(num_folders) ==
    IF num_folders < 10 THEN 5
    ELSE IF 10 <= num_folders /\ num_folders <= 20 THEN 10
    ELSE IF 21 <= num_folders /\ num_folders <= 50 THEN 20
    ELSE 50

\* The folder counts of the counties a purchase is tried for.
FolderCounts == {5, 15}

\* The command buy of the store.  It looks the currency cog up under the
\* name 'CurrencySystemCog'; a ConfirmationView is sent only when that cog
\* is found and the balance covers the price, and only a ConfirmationView
\* debits a purchase.
buy(user, county_found, folder_count) ==
    /\ issued < MaxIssued
    /\ issued' = issued + 1
    /\ IF ~county_found
       THEN last' = Event("buy", "rejected")
       ELSE IF ~get_cog("CurrencySystemCog")
       THEN last' = Event("buy", "unavailable")
       ELSE IF get_balance(balance, user) < calculate_price(folder_count)
       THEN last' = Event("buy", "rejected")
       ELSE last' = Event("buy", "confirmation")
    /\ UNCHANGED <<balance, in_flight>>
    /\ UNCHANGED <<verification_cog, trading_cog>>

Give ==
    \E c \in Commands, giver \in Users, receiver \in Users, a \in Amounts :
        give(c, giver, receiver, a)

GiveDebit == \E c \in Commands, ok \in BOOLEAN : give_debit(c, ok)

GiveCredit == \E c \in Commands, ok \in BOOLEAN : give_credit(c, ok)

AdminRemove ==
    \E c \in Commands, u \in Users, a \in Amounts : admin_remove(c, u, a)

AdminRemoveDebit == \E c \in Commands, ok \in BOOLEAN : admin_remove_debit(c, ok)

AdminAdd == \E u \in Users, a \in Amounts : admin_add(u, a)

Buy == \E u \in Users, f \in BOOLEAN, n \in FolderCounts : buy(u, f, n)

NextCurrency ==
    \/ Give
    \/ GiveDebit
    \/ GiveCredit
    \/ AdminRemove
    \/ AdminRemoveDebit
    \/ AdminAdd
    \/ Buy

SpecCurrency == Init /\ [][NextCurrency]_vars

\* ------------------------------------------------------- trading cog
\* del self.active_trades[key]: the keys afterwards.
DelTrade(trades, key) == trades \ {key}

\* How a step that runs del self.active_trades[key] ends: the statement
\* raises KeyError when the key is absent.
DelResult(trades, key) == IF key \in trades THEN "ended" ELSE "KeyError"

\* start_trade: a user without an entry gets one, whether or not the menu
\* could be sent to them; dm_ok is what send_dm returns.
start_trade(user, dm_ok) ==
    /\ IF user \notin active_trades
       THEN /\ active_trades' = active_trades \cup {user}
            /\ trade_data' = [trade_data EXCEPT ![user] = None]
            /\ trade_ended' = [trade_ended EXCEPT ![user] = FALSE]
            /\ last' = Event("start_trade", IF dm_ok THEN "ok" ELSE "logged")
       ELSE /\ UNCHANGED <<active_trades, trade_data, trade_ended>>
            /\ last' = Event("start_trade", "rejected")
    /\ UNCHANGED trade_pc
    /\ UNCHANGED <<verification_cog, currency_cog>>

\* TradeModal.on_submit: the form of the user's TradeView is submitted with
\* the name of target.
on_submit(user, target) ==
    /\ user \in active_trades
    /\ IF target = user
       THEN /\ UNCHANGED trade_data
            /\ last' = Event("on_submit", "rejected")
       ELSE /\ trade_data' = [trade_data EXCEPT ![user] = target]
            /\ last' = Event("on_submit", "ok")
    /\ UNCHANGED <<active_trades, trade_pc, trade_ended>>
    /\ UNCHANGED <<verification_cog, currency_cog>>

\* handle_next_stage up to its wait for the user's attachment.  One run per
\* user is followed at a time.
handle_next_stage(user) ==
    /\ trade_pc[user].at = "idle"
    /\ IF user \notin active_trades
       THEN /\ UNCHANGED trade_pc
            /\ last' = Event("handle_next_stage", "rejected")
       ELSE IF trade_data[user] = None
       THEN /\ UNCHANGED trade_pc
            /\ last' = Event("handle_next_stage", "rejected")
       ELSE /\ trade_pc' = [trade_pc EXCEPT ![user] =
                   [at |-> "attachment", target_user |-> trade_data[user]]]
            /\ last' = Event("handle_next_stage", "suspended")
    /\ UNCHANGED <<active_trades, trade_data, trade_ended>>
    /\ UNCHANGED <<verification_cog, currency_cog>>

\* How the wait for the user's attachment ends.
AttachmentOutcomes == {"timeout", "invalid", "valid"}

\* bot.wait_for of handle_next_stage returns a message or times out.  A
\* timeout deletes the entry; an attachment that validate_attachment
\* rejects makes confirm_trade return at once; a valid one leaves
\* confirm_trade waiting for the answer of the target user.
attachment_waited(user, outcome) ==
    /\ trade_pc[user].at = "attachment"
    /\ IF outcome = "timeout"
       THEN /\ active_trades' = DelTrade(active_trades, user)
            /\ trade_pc' = [trade_pc EXCEPT ![user] = NoTrade]
            /\ trade_ended' = [trade_ended EXCEPT ![user] = TRUE]
            /\ last' = Event("handle_next_stage", DelResult(active_trades, user))
       ELSE IF outcome = "invalid"
       THEN /\ UNCHANGED active_trades
            /\ trade_pc' = [trade_pc EXCEPT ![user] = NoTrade]
            /\ trade_ended' = [trade_ended EXCEPT ![user] = TRUE]
            /\ last' = Event("confirm_trade", "ended")
       ELSE /\ UNCHANGED <<active_trades, trade_ended>>
            /\ trade_pc' = [trade_pc EXCEPT ![user].at = "confirmation"]
            /\ last' = Event("confirm_trade", "suspended")
    /\ UNCHANGED trade_data
    /\ UNCHANGED <<verification_cog, currency_cog>>

\* How the wait for the answer of the target user ends.
ConfirmationOutcomes == {"yes", "no", "timeout"}

\* bot.wait_for of confirm_trade returns the answer or times out.  "no" and
\* a timeout delete the entry.  "yes" gathers two runs of
\* wait_for_attachments: the one for the user is given the first
\* attachment, a discord.Attachment, and reads its attribute attachments,
\* which raises; gather hands the exception on through confirm_trade and
\* handle_next_stage, which catch asyncio.TimeoutError only, and the run
\* for the target user goes on, waiting for their upload.
confirmation_waited(user, outcome) ==
    /\ trade_pc[user].at = "confirmation"
    /\ IF outcome = "yes"
       THEN /\ UNCHANGED active_trades
            /\ trade_pc' = [trade_pc EXCEPT ![user].at = "upload"]
            /\ last' = Event("confirm_trade", "raised")
       ELSE /\ active_trades' = DelTrade(active_trades, user)
            /\ trade_pc' = [trade_pc EXCEPT ![user] = NoTrade]
            /\ last' = Event("confirm_trade", DelResult(active_trades, user))
    /\ trade_ended' = [trade_ended EXCEPT ![user] = TRUE]
    /\ UNCHANGED trade_data
    /\ UNCHANGED <<verification_cog, currency_cog>>

\* How the wait for the upload of the target user ends.
UploadOutcomes == {"timeout", "invalid", "save_failed", "saved"}

\* wait_for_attachments(target_user, user) of the trade that user opened:
\* its parameter user is the target user, so the del statements of the
\* timeout and of the failed save name the target user's key.
upload_waited(user, outcome) ==
    /\ trade_pc[user].at = "upload"
    /\ LET target_user == trade_pc[user].target_user
       IN IF outcome \in {"timeout", "save_failed"}
          THEN /\ active_trades' = DelTrade(active_trades, target_user)
               /\ last' = Event("wait_for_attachments",
                                DelResult(active_trades, target_user))
          ELSE /\ UNCHANGED active_trades
               /\ last' = Event("wait_for_attachments", "ended")
    /\ trade_pc' = [trade_pc EXCEPT ![user] = NoTrade]
    /\ UNCHANGED <<trade_data, trade_ended>>
    /\ UNCHANGED <<verification_cog, currency_cog>>

StartTrade == \E u \in Users, ok \in BOOLEAN : start_trade(u, ok)

FormSubmitted == \E u \in Users, t \in Users : on_submit(u, t)

NextStage == \E u \in Users : handle_next_stage(u)

AttachmentWaited ==
    \E u \in Users, o \in AttachmentOutcomes : attachment_waited(u, o)

ConfirmationWaited ==
    \E u \in Users, o \in ConfirmationOutcomes : confirmation_waited(u, o)

UploadWaited == \E u \in Users, o \in UploadOutcomes : upload_waited(u, o)

NextTrading ==
    \/ StartTrade
    \/ FormSubmitted
    \/ NextStage
    \/ AttachmentWaited
    \/ ConfirmationWaited
    \/ UploadWaited

SpecTrading == Init /\ [][NextTrading]_vars

\* ---------------------------------------------------------------- claims
Age(d, u) == now - d[u]

\* C1: no user id is a key of both unverified_users and
\* recently_verified_users, in any reachable state.
C1_Disjoint ==
    \A u \in Users :
        ~(Has(unverified_users, u) /\ Has(recently_verified_users, u))

\* C2: a step in which the hourly sweep demotes a user leaves that user
\* without a recently-verified entry and with a pending entry whose time is
\* the sweep time.
C2_DemotionRestartsClock ==
    [][\A u \in Users :
          (demoted_at'[u] = now' /\ demoted_at[u] # now')
              => /\ ~Has(recently_verified_users', u)
                 /\ unverified_users'[u] = now']_vars

\* C3: a daily sweep whose kick calls all succeed, run more than the
\* verification window after the hourly sweep demoted a user who has since
\* stayed in the guild without being verified again, kicks that user and
\* leaves the ledger without an entry for them.
C3_DemotedIsKicked ==
    [][\A u \in Users :
          (/\ u \in guild_members
           /\ demoted_at[u] # None
           /\ now - demoted_at[u] > Window
           /\ last'.op = "check_unverified_users"
           /\ check_unverified_users(TRUE, TRUE, AllKicksOk))
              => /\ u \notin guild_members'
                 /\ ~Has(unverified_users', u)
                 /\ ~Has(recently_verified_users', u)]_vars

\* C4: a daily sweep leaves the pending entry of an expired member whose
\* kick call failed as it was, so that the next sweep selects the member
\* again; and a daily sweep removes the pending entry of a guild member only
\* if that member was selected and their kick call succeeded.
C4_KickRetry ==
    [][last'.op = "check_unverified_users" =>
       \A g \in BOOLEAN, p \in BOOLEAN :
       \A ok \in [IF g /\ p THEN ToKick(unverified_users, now) ELSE {} -> BOOLEAN] :
          check_unverified_users(g, p, ok) =>
              \A u \in guild_members :
                  /\ (g /\ p /\ u \in ToKick(unverified_users, now) /\ ~ok[u])
                        => /\ unverified_users'[u] = unverified_users[u]
                           /\ u \in ToKick(unverified_users', now')
                  /\ (Has(unverified_users, u) /\ ~Has(unverified_users', u))
                        => (g /\ p /\ u \in ToKick(unverified_users, now) /\ ok[u])
      ]_vars

\* C4 witness: a daily sweep has just logged a failed kick, and the member
\* still has the expired pending entry.
C4_Witness ==
    /\ last = Event("check_unverified_users", "kick_failed")
    /\ \E u \in guild_members :
          Has(unverified_users, u) /\ Age(unverified_users, u) > Window

\* C5 as stated: the daily sweep selects (and, its kick calls succeeding,
\* kicks) a member whose pending entry is exactly the verification period
\* old, and does not select one whose entry is one second younger.
C5_BoundaryIncluded ==
    [][(last'.op = "check_unverified_users"
           /\ check_unverified_users(TRUE, TRUE, AllKicksOk)) =>
          \A u \in guild_members :
              Has(unverified_users, u) =>
                  /\ Age(unverified_users, u) = Window => u \notin guild_members'
                  /\ Age(unverified_users, u) = Window - 1 => u \in guild_members'
      ]_vars

\* C5 amended: the daily sweep selects a member whose pending entry is one
\* second older than the verification period, and selects neither one whose
\* entry is exactly the verification period old nor one whose entry is one
\* second younger.
C5_BoundaryExcluded ==
    [][(last'.op = "check_unverified_users"
           /\ check_unverified_users(TRUE, TRUE, AllKicksOk)) =>
          \A u \in guild_members :
              Has(unverified_users, u) =>
                  /\ Age(unverified_users, u) = Window + 1
                        => u \notin guild_members' /\ ~Has(unverified_users', u)
                  /\ Age(unverified_users, u) \in {Window - 1, Window}
                        => /\ u \in guild_members'
                           /\ unverified_users'[u] = unverified_users[u]
      ]_vars

\* C5 witness: a daily sweep has just ended without an error, and a member
\* whose pending entry is exactly the verification period old is still
\* there.
C5_Witness ==
    /\ last = Event("check_unverified_users", "ok")
    /\ \E u \in guild_members :
          Has(unverified_users, u) /\ Age(unverified_users, u) = Window

C7_JoinIdempotent ==
    [][\A u \in Users, p \in BOOLEAN, ok \in BOOLEAN :
          (/\ (Has(unverified_users, u) \/ Has(recently_verified_users, u))
           /\ last'.op = "on_member_join"
           /\ on_member_join(u, p, ok))
              => /\ unverified_users' = unverified_users
                 /\ recently_verified_users' = recently_verified_users]_vars

\* C8: unloading the cog and constructing it again leaves both dicts as
\* they were: the same users with the same times.
C8_RoundTrip ==
    [][Restart => /\ unverified_users' = unverified_users
                  /\ recently_verified_users' = recently_verified_users]_vars

\* C9: a Join handled with the MUST VERIFY handle set, the permission to
\* manage roles and an add_roles call that succeeds leaves the member holding
\* MUST VERIFY and tracked as pending with the time of the join; a Join
\* handled with the handle unset changes no role and no entry.
C9_Join ==
    [][last'.op = "on_member_join" =>
       \A u \in Users, p \in BOOLEAN, ok \in BOOLEAN :
          on_member_join(u, p, ok) =>
              /\ (must_verify_role /\ p /\ ok)
                    => /\ MUST_VERIFY \in roles'[u]
                       /\ unverified_users'[u] = now
                       /\ u \in guild_members'
              /\ ~must_verify_role
                    => /\ roles' = roles
                       /\ unverified_users' = unverified_users
                       /\ recently_verified_users' = recently_verified_users
      ]_vars

\* C9 witness: a Join has just succeeded, later than the start, and the
\* member is tracked with the time of the join.
C9_Witness ==
    /\ last = Event("on_member_join", "ok")
    /\ now > 0
    /\ \E u \in guild_members :
          MUST_VERIFY \in roles[u] /\ unverified_users[u] = now

C11_Promotion ==
    [][last'.op = "verify_user" =>
       \A c \in Callers, m \in guild_members :
          (/\ is_admin_or_moderator(c[1], c[2])
           /\ must_verify_role /\ member_role
           /\ MUST_VERIFY \in roles[m]
           /\ verify_user(c[1], c[2], m, "none"))
              => /\ MEMBER \in roles'[m]
                 /\ MUST_VERIFY \notin roles'[m]
                 /\ ~Has(unverified_users', m)
                 /\ recently_verified_users'[m] = now
                 /\ last'.res = "ok"
      ]_vars

\* C11 witness: a verify_user has just succeeded, later than the start, for
\* a member who now holds Member alone, has the recently-verified entry of
\* this instant and no pending entry.
C11_Witness ==
    /\ last = Event("verify_user", "ok")
    /\ now > 0
    /\ \E u \in guild_members :
          /\ recently_verified_users[u] = now
          /\ roles[u] = {MEMBER}
          /\ ~Has(unverified_users, u)

\* C12: in every state between two handlers, every guild member with a
\* pending entry holds MUST VERIFY and not Member, and every guild member
\* with a recently-verified entry holds Member and not MUST VERIFY.
C12_LedgerRolesAgree ==
    \A u \in guild_members :
        /\ Has(unverified_users, u)
              => (MUST_VERIFY \in roles[u] /\ MEMBER \notin roles[u])
        /\ Has(recently_verified_users, u)
              => (MEMBER \in roles[u] /\ MUST_VERIFY \notin roles[u])

\* C13: an hourly sweep in which the direct message to a selected member
\* raises (the two role calls having returned) still leaves that member
\* without Member, with MUST VERIFY and without a recently-verified entry.
C13_DemotionDespiteDM ==
    [][last'.op = "check_verified_users_activity" =>
       \A f \in [ToReverify(recently_verified_users, now)
                    -> OutboundCalls \cup {"none"}] :
          (/\ must_verify_role /\ member_role
           /\ check_verified_users_activity(TRUE, TRUE, f))
              => \A u \in ToReverify(recently_verified_users, now) :
                    f[u] = "send"
                       => /\ MEMBER \notin roles'[u]
                          /\ MUST_VERIFY \in roles'[u]
                          /\ ~Has(recently_verified_users', u)
      ]_vars

\* The user holds Member and has no entry in either dict.
VerifiedStable(u) ==
    /\ u \in guild_members
    /\ MEMBER \in roles[u]
    /\ ~Has(unverified_users, u)
    /\ ~Has(recently_verified_users, u)

\* C14: no step of the daily or of the hourly sweep changes the roles of a
\* member who holds Member and has no entry in either dict, or removes that
\* member from the guild, also when message events are handled while the
\* sweep is suspended.
C14_StableAbsorbing ==
    [][\A u \in Users :
          (/\ VerifiedStable(u)
           /\ last'.op \in {"check_unverified_users",
                             "check_verified_users_activity"})
              => (roles'[u] = roles[u] /\ u \in guild_members')]_vars

\* C15: a step of the daily sweep removes a member from the guild only if
\* that member has a pending entry when the step is taken, also when
\* verify_user is handled while the sweep is suspended in the kick call of
\* another member.
C15_KickOnlyPending ==
    [][\A u \in Users :
          (/\ last'.op = "check_unverified_users"
           /\ u \in guild_members
           /\ u \notin guild_members')
              => Has(unverified_users, u)]_vars

\* C16: the guild never has more than one role of a tracked name, and once
\* both runs of initialize_roles have ended with both handles set it has
\* exactly one of each.
C16_OneRolePerName ==
    /\ \A n \in RoleNames : guild_roles[n] <= 1
    /\ ((\A r \in Runs : init_run[r].pc = "done")
          /\ must_verify_role /\ member_role)
            => \A n \in RoleNames : guild_roles[n] = 1

\* The handlers that depend on the role directory.
DependentOps ==
    {"on_member_join", "verify_user", "on_message", "check_unverified_users",
     "check_verified_users_activity", "on_guild_role_update"}

\* C17: a step of a dependent handler taken while the MUST VERIFY handle or
\* the Member handle is unset ends without an exception leaving the handler
\* and changes no role and no entry of either dict.
C17_UninitializedSkips ==
    [][(/\ ~must_verify_role \/ ~member_role
        /\ last'.op \in DependentOps)
          => /\ last'.res # "raised"
             /\ roles' = roles
             /\ unverified_users' = unverified_users
             /\ recently_verified_users' = recently_verified_users]_vars

TransitionOps ==
    {"on_member_join", "verify_user", "on_message", "check_unverified_users",
     "check_verified_users_activity"}

\* C19: no run of a transition handler ends with an exception leaving the
\* handler, whichever outbound call raises.
C19_NoPropagation ==
    last.op \in TransitionOps => last.res # "raised"

\* C20: a run of initialize_roles is never in an attempt beyond the third;
\* the number of its attempt goes up by one only when the sleep after a
\* failed attempt returns; an attempt whose calls return ends the run; the
\* sleep after the third failed attempt ends the run; and a run that has
\* ended makes no further step.
C20_BoundedRetry ==
    [][\A r \in Runs :
          LET a == init_run[r]
              b == init_run'[r]
          IN /\ b.attempt <= 3
             /\ b.attempt # a.attempt
                   => /\ b.attempt = a.attempt + 1
                      /\ a.pc \in {"idle", "sleep"}
             /\ (a.pc = "create_member" /\ create_role_returns(r, TRUE))
                   => b.pc = "done"
             /\ (a.pc = "sleep" /\ a.attempt = 3 /\ b # a)
                   => (b.pc = "done" /\ b.attempt = 3)
             /\ a.pc = "done" => b = a
      ]_vars

\* C20 witness: a run has ended after the sleep that follows its third
\* failed attempt, and the directory is left uninitialized.
C20_Witness ==
    /\ last = Event("initialize_roles", "logged")
    /\ ~(must_verify_role /\ member_role)
    /\ \E r \in Runs : init_run[r] = [pc |-> "done", attempt |-> 3]

\* C21: a run of initialize_roles that ends without a successful attempt
\* leaves the MUST VERIFY handle and the Member handle both set or both
\* unset, never one set and the other unset.
C21_DirectoryWhole ==
    (last.op = "initialize_roles" /\ last.res = "logged")
        => must_verify_role = member_role

\* C22: when cog_unload cancels the sweeps, the member each suspended sweep
\* was working on shows the whole transition or none of it: the member of
\* the daily sweep is out of the guild without a pending entry, or is as
\* before; the member of the hourly sweep holds MUST VERIFY without Member
\* and has no recently-verified entry, or holds Member without MUST VERIFY
\* and has the entry.
C22_CancelAtomic ==
    [][last'.op = "cog_unload" =>
       \A kick_landed \in BOOLEAN, call_landed \in BOOLEAN :
          cog_unload(kick_landed, call_landed) =>
             /\ to_kick # <<>> =>
                  LET m == Head(to_kick)
                  IN \/ /\ m \notin guild_members'
                        /\ ~Has(unverified_users', m)
                     \/ /\ (m \in guild_members') = (m \in guild_members)
                        /\ unverified_users'[m] = unverified_users[m]
                        /\ roles'[m] = roles[m]
             /\ to_reverify # <<>> =>
                  LET m == Head(to_reverify)
                  IN \/ /\ MEMBER \notin roles'[m]
                        /\ MUST_VERIFY \in roles'[m]
                        /\ ~Has(recently_verified_users', m)
                     \/ /\ MEMBER \in roles'[m]
                        /\ MUST_VERIFY \notin roles'[m]
                        /\ Has(recently_verified_users', m)
      ]_vars

\* C23: handling a message changes no role, no pending entry, no member of
\* the guild and no recently-verified entry other than the author's.
C23_MessageFrame ==
    [][last'.op = "on_message" =>
       \A u \in Users, g \in BOOLEAN :
          on_message(u, g) =>
             /\ roles' = roles
             /\ unverified_users' = unverified_users
             /\ guild_members' = guild_members
             /\ \A v \in Users \ {u} :
                   recently_verified_users'[v] = recently_verified_users[v]
             /\ recently_verified_users'[u] \in {recently_verified_users[u], None}
      ]_vars

\* C23 witness: a message has just been handled, its author proved
\* activity and has no recently-verified entry, and another member holding
\* Member still has one.
C23_Witness ==
    /\ last = Event("on_message", "ok")
    /\ \E u \in guild_members, v \in guild_members :
          /\ u # v
          /\ cleared[u] /\ MEMBER \in roles[u]
          /\ ~Has(recently_verified_users, u)
          /\ MEMBER \in roles[v] /\ Has(recently_verified_users, v)

\* C24 as stated: a daily sweep that does not find the guild or lacks the
\* kick permission, and an hourly sweep that does not find the guild or
\* lacks the manage-roles permission, changes no member, no role and no
\* entry of either dict, and ends without an exception.
C24_NoOp ==
    [][/\ last'.op = "check_unverified_users" =>
          \A g \in BOOLEAN, p \in BOOLEAN :
             (~(g /\ p) /\ check_unverified_users(g, p, <<>>))
                => /\ guild_members' = guild_members
                   /\ roles' = roles
                   /\ unverified_users' = unverified_users
                   /\ recently_verified_users' = recently_verified_users
                   /\ last'.res # "raised"
       /\ last'.op = "check_verified_users_activity" =>
          \A g \in BOOLEAN, p \in BOOLEAN :
             (~(g /\ p) /\ check_verified_users_activity(g, p, <<>>))
                => /\ guild_members' = guild_members
                   /\ roles' = roles
                   /\ unverified_users' = unverified_users
                   /\ recently_verified_users' = recently_verified_users
                   /\ last'.res # "raised"
      ]_vars

\* C24 amended: such a sweep kicks nobody, changes no role and no entry of a
\* guild member, and ends without an exception; when the guild is not found
\* it changes no entry at all, and when only the permission is lacking the
\* dict it scans loses exactly the entries of the users who are not guild
\* members, the other dict being unchanged.
C24_NoOpButCleanup ==
    [][/\ last'.op = "check_unverified_users" =>
          \A g \in BOOLEAN, p \in BOOLEAN :
             (~(g /\ p) /\ check_unverified_users(g, p, <<>>))
                => /\ guild_members' = guild_members
                   /\ roles' = roles
                   /\ recently_verified_users' = recently_verified_users
                   /\ last'.res # "raised"
                   /\ \A u \in Users :
                         unverified_users'[u] =
                            IF g /\ u \notin guild_members THEN None
                            ELSE unverified_users[u]
       /\ last'.op = "check_verified_users_activity" =>
          \A g \in BOOLEAN, p \in BOOLEAN :
             (~(g /\ p) /\ check_verified_users_activity(g, p, <<>>))
                => /\ guild_members' = guild_members
                   /\ roles' = roles
                   /\ unverified_users' = unverified_users
                   /\ last'.res # "raised"
                   /\ \A u \in Users :
                         recently_verified_users'[u] =
                            IF g /\ u \notin guild_members THEN None
                            ELSE recently_verified_users[u]
      ]_vars

\* C24 witness: a daily sweep has just logged that it cannot act, while a
\* member whose pending entry has expired is still in the guild with that
\* entry.
C24_Witness ==
    /\ last = Event("check_unverified_users", "logged")
    /\ \E u \in guild_members :
          Has(unverified_users, u) /\ Age(unverified_users, u) > Window

\* C25: under sweeps that keep firing and kick calls that return, a member
\* who is not verified and does not leave is eventually removed from the
\* guild.
C25_EventuallyKicked ==
    \A u \in Users : (u \in guild_members) ~> (u \notin guild_members)

\* C26: every user the daily sweep kicks joined the guild for the last time
\* more than VERIFICATION_PERIOD_HOURS before the sweep, also when the user
\* left and joined again.
C26_KickAfterWindow ==
    [][last'.op = "check_unverified_users" =>
       \A u \in guild_members \ guild_members' :
          /\ joined_at[u] # None
          /\ now - joined_at[u] > VERIFICATION_PERIOD_HOURS * SecondsPerHour
      ]_vars

C30_SessionsRemoved ==
    /\ \A u \in Users : trade_ended[u] => u \notin active_trades
    /\ last.res # "KeyError"

====
